---- MODULE Spec2Model ----
(***************************************************************************)
(* FilesystemKeyStore of keystore/filesystem/server_keystore.go: a key     *)
(* store that keeps encrypted private keys and plaintext public keys in    *)
(* files and caches the bytes it has read in store.keys.                   *)
(*                                                                         *)
(* Several goroutines (Procs) call the store's methods.  Every method is   *)
(* cut into steps at its accesses to shared state (the files, store.keys,  *)
(* the buffers the map points to, store.lock); a step is one action.       *)
(* A section that runs under store.lock and makes one access to the shared *)
(* state is one step taken while the lock is free; a section that reads    *)
(* and later writes store.keys holds the lock over two steps.              *)
(* Byte slices that are shared between the map and a caller are cells of   *)
(* heap, so that utils.FillSlice on a cached slice is seen by every alias. *)
(***************************************************************************)
EXTENDS Integers, Sequences, FiniteSets, TLC

\* ------------------------------------------------------------------ bounds
\* Calls the goroutines make to the store in one run.  A call generates at
\* most one key and allocates at most one slice, so this bounds those too.
MaxCalls == 3
\* Steps the goroutines take in one run.
MaxSteps == 8

\* The goroutines calling the store.
Procs == {1, 2}
\* Identities the callers pass; "" is the empty one, which the validator rejects.
Ids == {"", "a"}
\* Identities zone.GenerateZoneID yields.
ZoneIds == {"a", "z"}

\* Modes of the private-key directory: the one the constructor accepts
\* ("-rwx------", line 42), another one, and no directory at all.
OwnerOnly == "rwx------"
DirModes == {"absent", OwnerOnly, "rwxr-xr-x"}
\* os.MkdirAll(dir, 0700): creates the directory when there is none.
MkdirAll(d) == IF d = "absent" THEN OwnerOnly ELSE d

\* The value of steps in a run that does not count its steps.
NoCount == -1
\* store.lock held by no goroutine.
NoProc == 0
\* The nil slice, and the answer of store.keys for a filename it does not hold.
NoRef == 0

\* ------------------------------------------------------------- byte values
\* A byte slice is described by what it holds: nothing (nil, or no file),
\* zero bytes, a public key, a plaintext private key, random bytes, or the
\* encryptor's ciphertext of private key k under context ctx.
NoBytes == [kind |-> "none", k |-> 0, ctx |-> ""]
Zero == [kind |-> "zero", k |-> 0, ctx |-> ""]
Pub(n) == [kind |-> "pub", k |-> n, ctx |-> ""]
Priv(n) == [kind |-> "priv", k |-> n, ctx |-> ""]
Rand(n) == [kind |-> "rand", k |-> n, ctx |-> ""]
Cipher(n, c) == [kind |-> "ct", k |-> n, ctx |-> c]

\* utils.FillSlice(byte(0), b): every byte of the slice becomes zero.
FillSlice(b) == IF b = NoBytes THEN NoBytes ELSE Zero

\* ---------------------------------------------------------------- filenames
\* A filename is the identity (or a fixed name) followed by the role's suffix;
\* pub marks the ".pub" ending fmt.Sprintf("%s.pub", filename) appends.
Name(b, s) == [base |-> b, suffix |-> s, pub |-> FALSE]
PubName(f) == [f EXCEPT !.pub = TRUE]

getZoneKeyFilename(i) == Name(i, "_zone")
getServerKeyFilename(i) == Name(i, "_server")
getServerDecryptionKeyFilename(i) == Name(i, "_storage")
getConnectorKeyFilename(i) == Name(i, "_connector")
getTranslatorKeyFilename(i) == Name(i, "_translator")
getPublicKeyFilename(i) == PubName(getConnectorKeyFilename(i))
POISON_KEY_FILENAME == Name("poison_key", "")
BASIC_AUTH_KEY_FILENAME == Name("auth_key", "")
\* []byte(POISON_KEY_FILENAME), the context of the poison private key.
PoisonContext == "poison_key"

\* keystore.ValidateID: the identity validator; the empty identity fails it.
ValidateID(i) == i # ""

VARIABLES
    store,      \* the process's FilesystemKeyStore: "open", or "none" when it has none
    dirMode,    \* the private-key directory: its permission bits, or "absent"
    disk,       \* the files under the key directories: filename -> bytes
    keys,       \* store.keys: filename -> the slice cached under it
    heap,       \* the byte slices the store allocated: heap[r] is the content of slice r
    lock,       \* store.lock: the goroutine holding it for writing, or NoProc
    nextKey,    \* the next key material the generators produce
    pc,         \* where each goroutine is in its call
    op,         \* the method each goroutine is in
    id,         \* the identity (clientID) of the call
    fname,      \* the filename of the call
    kp,         \* the keypair generateKeyPair made in this call (its number), 0 = none
    buf,        \* encryptedKey / publicKey of the call: a slice of heap, NoRef = none
    remove,     \* the argument of a GetAuthKey call
    solo,       \* history: no call that disturbs this one has overlapped it (Disturbs)
    last,       \* history: the return the latest step made, if any, and the failure it met
    handed,     \* history: the public-key slice handed out last, and its bytes when returned
    lastPoison, \* history: the pair returned by the latest GetPoisonKeyPair call
    written,    \* history: the public key the latest successful GenerateConnectorKeys wrote
    issued,     \* history: the zone identities GenerateZoneKey has returned
    afterReset, \* history: the latest Reset returned, and no section has started since
    calls,      \* history: the calls made so far
    steps       \* history: the steps taken so far, or NoCount

vars == <<store, dirMode, disk, keys, heap, lock, nextKey, pc, op, id, fname, kp, buf, remove,
          solo, last, handed, lastPoison, written, issued, afterReset, calls, steps>>

\* ------------------------------------------------------------ return values
\* The values a method returns: err is "nil" or the error; ref is the slice
\* behind pub when pub is a slice of heap.
NoValue == [err |-> "none", zid |-> "", pub |-> NoBytes, priv |-> NoBytes,
            ref |-> NoRef, has |-> FALSE]
\* return ..., err
RetErr(e) == [NoValue EXCEPT !.err = e]
\* return nil (no error, no value)
RetNil == [NoValue EXCEPT !.err = "nil"]
\* return b
RetHas(b) == [RetNil EXCEPT !.has = b]

NoName == Name("", "")
NoReturn == [op |-> "none", id |-> "", ret |-> NoValue, touched |-> FALSE, failed |-> "none"]
NoSlice == [ref |-> NoRef, bytes |-> NoBytes]
NoPair == [valid |-> FALSE, pub |-> NoBytes, priv |-> NoBytes, again |-> FALSE]
NoReset == [fresh |-> FALSE, zeroed |-> TRUE]
\* make(map[string][]byte), and a directory with no key file in it.
EmptyKeys == [f \in {} |-> NoRef]
EmptyDisk == [f \in {} |-> NoBytes]

\* ----------------------------------------------------------------- encryptor
\* store.encryptor.Encrypt(key, context): the ciphertext of the key, bound
\* to the context.
Encrypt(b, c) == Cipher(b.k, c)
\* store.encryptor.Decrypt(data, context) can succeed only on ciphertext made
\* with the same context; the encryptor may also fail on its own (another
\* master key, a backend that is down), which each call draws as an input.
CanDecrypt(b, c) == b.kind = "ct" /\ b.ctx = c
Decrypt(b, c) == IF CanDecrypt(b, c) THEN Priv(b.k) ELSE NoBytes

\* ----------------------------------------------------------------- helpers
Idle(p) == pc[p] = "idle"
InPoison(p) == op[p] = "GetPoisonKeyPair"
Goto(p, l) == pc' = [pc EXCEPT ![p] = l]
\* One more step is taken, within the bound when the run counts its steps.
Tick == IF steps = NoCount THEN UNCHANGED steps
        ELSE steps < MaxSteps /\ steps' = steps + 1
\* The methods whose overlap with a call of o makes what o returns depend on
\* the interleaving: the check-then-generate methods race with themselves
\* (lines 315-340, 347-362), a public-key lookup with the generation that
\* rewrites the file it reads (lines 86, 218).
Disturbs(o) ==
    CASE o = "GetPoisonKeyPair" -> {"GetPoisonKeyPair"}
      [] o = "GetAuthKey" -> {"GetAuthKey"}
      [] o = "GetPeerPublicKey" -> {"GenerateConnectorKeys"}
      [] OTHER -> {}
\* What a return leaves in the histories: r are the values returned by method
\* o called with i, t says whether the call accessed a file, a directory or
\* store.keys, e names the collaborator failure that happened in it.
\* A GetPoisonKeyPair call leaves its pair in lastPoison when it succeeded
\* and no other such call overlapped it; again says that the call before it
\* did so too.
Returned(p, o, i, r, t, e) ==
    /\ last' = [op |-> o, id |-> i, ret |-> r, touched |-> t, failed |-> e]
    /\ handed' = IF r.ref # NoRef THEN [ref |-> r.ref, bytes |-> r.pub] ELSE handed
    /\ lastPoison' = IF o # "GetPoisonKeyPair" THEN lastPoison
                     ELSE IF r.err = "nil" /\ solo[p]
                          THEN [valid |-> TRUE, pub |-> r.pub, priv |-> r.priv,
                                again |-> lastPoison.valid]
                          ELSE NoPair
\* The call returns r; its locals die.
Return(p, r, t, e) ==
    /\ Returned(p, op[p], id[p], r, t, e)
    /\ pc' = [pc EXCEPT ![p] = "idle"]
    /\ op' = [op EXCEPT ![p] = "none"]
    /\ id' = [id EXCEPT ![p] = ""]
    /\ fname' = [fname EXCEPT ![p] = NoName]
    /\ kp' = [kp EXCEPT ![p] = 0]
    /\ buf' = [buf EXCEPT ![p] = NoRef]
    /\ remove' = [remove EXCEPT ![p] = FALSE]
    /\ solo' = [solo EXCEPT ![p] = FALSE]
    /\ UNCHANGED <<calls, store>>
    /\ Tick
\* A method is entered: o(i), working on filename f, next at label l.
Enter(p, o, i, f, l) ==
    /\ store = "open"
    /\ Idle(p)
    /\ calls < MaxCalls
    /\ calls' = calls + 1
    /\ Tick
    /\ op' = [op EXCEPT ![p] = o]
    /\ id' = [id EXCEPT ![p] = i]
    /\ fname' = [fname EXCEPT ![p] = f]
    /\ pc' = [pc EXCEPT ![p] = l]
    /\ solo' = [q \in Procs |->
                   IF q = p
                   THEN Disturbs(o) # {} /\ \A r \in Procs \ {p} : op[r] \notin Disturbs(o)
                   ELSE solo[q] /\ o \notin Disturbs(op[q])]
    /\ last' = NoReturn
    /\ UNCHANGED <<store, kp, buf, handed, lastPoison>>
\* A method is entered and returns at once with r, having touched nothing.
EnterReturn(p, o, i, r) ==
    /\ store = "open"
    /\ Idle(p)
    /\ calls < MaxCalls
    /\ calls' = calls + 1
    /\ Tick
    /\ Returned(p, o, i, r, FALSE, "none")
    /\ UNCHANGED <<store, pc, op, id, fname, kp, buf, solo>>
\* The step makes no return.
NoReturnMade == last' = NoReturn /\ Tick /\ UNCHANGED <<store, handed, lastPoison, calls>>
\* A section that accesses store.keys begins: the latest Reset is no longer
\* the last thing that happened to the cache.
Section == afterReset' = [afterReset EXCEPT !.fresh = FALSE]

\* The bytes of file f, NoBytes when there is no such file.
File(f) == IF f \in DOMAIN disk THEN disk[f] ELSE NoBytes
\* store.keys[f], NoRef when the map has no entry for f.
Entry(f) == IF f \in DOMAIN keys THEN keys[f] ELSE NoRef
\* m[f] = v, for a file written and for an entry of the map set.
Put(m, f, v) == [x \in DOMAIN m \cup {f} |-> IF x = f THEN v ELSE m[x]]
\* The slices store.keys points to.
Cached == {keys[f] : f \in DOMAIN keys}
\* The variables of the store that a step may leave alone.
shared == <<dirMode, written, disk, keys, heap, lock, nextKey>>

\* A store has been constructed over an empty directory that only its
\* owner can read, write and enter.
Init ==
    /\ store = "open"
    /\ dirMode = OwnerOnly
    /\ disk = EmptyDisk
    /\ keys = EmptyKeys
    /\ heap = <<>>
    /\ lock = NoProc
    /\ nextKey = 1
    /\ pc = [p \in Procs |-> "idle"]
    /\ op = [p \in Procs |-> "none"]
    /\ id = [p \in Procs |-> ""]
    /\ fname = [p \in Procs |-> NoName]
    /\ kp = [p \in Procs |-> 0]
    /\ buf = [p \in Procs |-> NoRef]
    /\ remove = [p \in Procs |-> FALSE]
    /\ solo = [p \in Procs |-> FALSE]
    /\ last = NoReturn
    /\ handed = NoSlice
    /\ lastPoison = NoPair
    /\ written = NoBytes
    /\ issued = {}
    /\ afterReset = NoReset
    /\ calls = 0
    /\ steps = 0

\* ------------------------------------------------------- NewFilesystemKeyStore
\* Lines 37-56, the checks of NewFilesystemKeyStoreTwoPath on linux: what
\* the constructor returns over a private-key directory of mode d, when
\* utils.AbsPath succeeds or not, os.Stat of an existing directory succeeds
\* or not, and the two folders given are the same or not.  os.Stat of a
\* directory that does not exist fails with an error that os.IsNotExist
\* accepts; line 48 resolves the private folder a second time.
ConstructionError(d, absOk, statOk, samePath) ==
    IF ~absOk THEN "ErrAbsPath"
    ELSE IF d # "absent" /\ statOk
    THEN IF d # OwnerOnly THEN "ErrPermissions" ELSE "nil"
    ELSE IF ~samePath /\ d # "absent" THEN "ErrStat"
    ELSE "nil"

\* Lines 30-59: a store is constructed over the same directories.  The
\* process starts again: no call is in flight, the map is empty and the
\* slices of the old process are gone.  When the constructor returns an
\* error the process has no store.
NewFilesystemKeyStore ==
    /\ \A p \in Procs : Idle(p)
    /\ \E absOk, statOk, samePath \in BOOLEAN :
         LET e == ConstructionError(dirMode, absOk, statOk, samePath) IN
         /\ store' = IF e = "nil" THEN "open" ELSE "none"
         /\ last' = [NoReturn EXCEPT !.op = "NewFilesystemKeyStore", !.ret = RetErr(e),
                                     !.touched = absOk,
                                     !.failed = IF e = "nil" THEN "none" ELSE e]
    /\ keys' = EmptyKeys
    /\ heap' = <<>>
    /\ lock' = NoProc
    /\ handed' = NoSlice
    /\ afterReset' = NoReset
    /\ Tick
    /\ UNCHANGED <<dirMode, written, disk, nextKey, pc, op, id, fname, kp, buf, remove, solo,
                   lastPoison, issued, calls>>

\* ----------------------------------------------------- getPrivateKeyByFilename
\* Lines 153-156: the identity is validated before anything else.
getPrivateKeyByFilename(p, o, i, f) ==
    /\ IF ~ValidateID(i)
       THEN EnterReturn(p, o, i, RetErr("ErrInvalidClientID"))
       ELSE Enter(p, o, i, f, "lk_lock")
    /\ UNCHANGED <<shared, remove, issued, afterReset>>

GetZonePrivateKey(p, i) ==
    getPrivateKeyByFilename(p, "GetZonePrivateKey", i, getZoneKeyFilename(i))
GetPrivateKey(p, i) ==
    getPrivateKeyByFilename(p, "GetPrivateKey", i, getServerKeyFilename(i))
GetServerDecryptionPrivateKey(p, i) ==
    getPrivateKeyByFilename(p, "GetServerDecryptionPrivateKey", i,
                            getServerDecryptionKeyFilename(i))

\* A variant of lines 157-166 that loads the file without looking in
\* store.keys.
getPrivateKeyByFilename_load_uncached(p) ==
    /\ pc[p] = "lk_lock"
    /\ lock = NoProc
    /\ Section
    /\ IF File(fname[p]) = NoBytes
       THEN /\ Return(p, RetErr("ErrNotExist"), TRUE, "none")
            /\ UNCHANGED <<heap, lock>>
       ELSE \E readOk \in BOOLEAN :
            IF ~readOk
            THEN /\ Return(p, RetErr("ErrRead"), TRUE, "ErrRead")
                 /\ UNCHANGED <<heap, lock>>
            ELSE /\ heap' = Append(heap, File(fname[p]))
                 /\ buf' = [buf EXCEPT ![p] = Len(heap) + 1]
                 /\ lock' = p
                 /\ Goto(p, "lk_fin")
                 /\ NoReturnMade
                 /\ UNCHANGED <<op, id, fname, kp, remove, solo>>
    /\ UNCHANGED <<dirMode, written, disk, keys, nextKey, issued>>

\* Lines 157-166: store.lock.Lock(), the look in store.keys and, on a miss,
\* utils.LoadPrivateKey, which fails when the file is absent or unreadable.
getPrivateKeyByFilename_load(p) ==
    /\ pc[p] = "lk_lock"
    /\ lock = NoProc
    /\ Section
    /\ IF Entry(fname[p]) # NoRef
       THEN /\ buf' = [buf EXCEPT ![p] = Entry(fname[p])]
            /\ lock' = p
            /\ Goto(p, "lk_fin")
            /\ NoReturnMade
            /\ UNCHANGED <<heap, op, id, fname, kp, remove, solo>>
       ELSE IF File(fname[p]) = NoBytes
       THEN /\ Return(p, RetErr("ErrNotExist"), TRUE, "none")
            /\ UNCHANGED <<heap, lock>>
       ELSE \E readOk \in BOOLEAN :
            IF ~readOk
            THEN /\ Return(p, RetErr("ErrRead"), TRUE, "ErrRead")
                 /\ UNCHANGED <<heap, lock>>
            ELSE /\ heap' = Append(heap, File(fname[p]))
                 /\ buf' = [buf EXCEPT ![p] = Len(heap) + 1]
                 /\ lock' = p
                 /\ Goto(p, "lk_fin")
                 /\ NoReturnMade
                 /\ UNCHANGED <<op, id, fname, kp, remove, solo>>
    /\ UNCHANGED <<dirMode, written, disk, keys, nextKey, issued>>

\* A variant of lines 168-171 that reports a failed Decrypt as a missing key.
getPrivateKeyByFilename_decrypt_absent(p) ==
    /\ pc[p] = "lk_fin"
    /\ lock' = NoProc
    /\ \E decOk \in BOOLEAN :
         IF ~decOk \/ ~CanDecrypt(heap[buf[p]], id[p])
         THEN /\ Return(p, RetErr("ErrNotExist"), TRUE, "ErrDecrypt")
              /\ UNCHANGED keys
         ELSE /\ keys' = Put(keys, fname[p], buf[p])
              /\ Return(p, [RetNil EXCEPT !.priv = Decrypt(heap[buf[p]], id[p])],
                        TRUE, "none")
    /\ UNCHANGED <<dirMode, written, disk, heap, nextKey, issued, afterReset>>

\* Lines 168-174: Decrypt with the identity as context; on success the
\* ciphertext is cached and the plaintext returned; the deferred Unlock runs.
getPrivateKeyByFilename_decrypt(p) ==
    /\ pc[p] = "lk_fin"
    /\ lock' = NoProc
    /\ \E decOk \in BOOLEAN :
         IF ~decOk \/ ~CanDecrypt(heap[buf[p]], id[p])
         THEN /\ Return(p, RetErr("ErrDecrypt"), TRUE, "ErrDecrypt")
              /\ UNCHANGED keys
         ELSE /\ keys' = Put(keys, fname[p], buf[p])
              /\ Return(p, [RetNil EXCEPT !.priv = Decrypt(heap[buf[p]], id[p])],
                        TRUE, "none")
    /\ UNCHANGED <<dirMode, written, disk, heap, nextKey, issued, afterReset>>

\* ------------------------------------------------------------- generateKeyPair
\* Lines 62-85 of generateKeyPair(filename, clientID): keys.New, the two
\* os.MkdirAll, Encrypt of the private key with clientID as context, and the
\* write of the private-key file.  Any failure returns the error; keys.New
\* fails before a directory or file is touched.
generateKeyPair_private(p) ==
    /\ pc[p] = "kp_priv"
    /\ \E e \in {"nil", "ErrGenerate", "ErrMkdir", "ErrEncrypt", "ErrWrite"} :
         IF e # "nil"
         THEN /\ Return(p, RetErr(e), e # "ErrGenerate", e)
              /\ dirMode' = IF e \in {"ErrGenerate", "ErrMkdir"} THEN dirMode
                             ELSE MkdirAll(dirMode)
              /\ UNCHANGED <<disk, nextKey>>
         ELSE /\ nextKey' = nextKey + 1
              /\ dirMode' = MkdirAll(dirMode)
              /\ kp' = [kp EXCEPT ![p] = nextKey]
              /\ disk' = Put(disk, fname[p], Encrypt(Priv(nextKey), id[p]))
              /\ Goto(p, "kp_pub")
              /\ NoReturnMade
              /\ UNCHANGED <<op, id, fname, buf, remove, solo>>
    /\ UNCHANGED <<written, keys, heap, lock, issued, afterReset>>

\* What the caller of generateKeyPair returns once the pair is written:
\* GetPoisonKeyPair the pair (line 340), the Generate...Keys methods nil.
KeypairResult(p) ==
    IF op[p] = "GetPoisonKeyPair"
    THEN [RetNil EXCEPT !.pub = Pub(kp[p]), !.priv = Priv(kp[p])]
    ELSE RetNil

\* A variant of lines 86-90 that also puts the encrypted private key in
\* store.keys.
generateKeyPair_public_cached(p) ==
    /\ pc[p] = "kp_pub"
    /\ \E e \in {"nil", "ErrWrite"} :
         IF e # "nil"
         THEN /\ Return(p, RetErr(e), TRUE, e)
              /\ UNCHANGED <<disk, written, keys, heap>>
         ELSE /\ disk' = Put(disk, PubName(fname[p]), Pub(kp[p]))
              /\ written' = IF op[p] = "GenerateConnectorKeys" THEN Pub(kp[p])
                             ELSE written
              /\ heap' = Append(heap, File(fname[p]))
              /\ keys' = Put(keys, fname[p], Len(heap) + 1)
              /\ IF op[p] = "GenerateZoneKey"
                 THEN /\ Goto(p, "gz_lock")
                      /\ NoReturnMade
                      /\ UNCHANGED <<op, id, fname, kp, buf, remove, solo>>
                 ELSE Return(p, KeypairResult(p), TRUE, "none")
    /\ UNCHANGED <<dirMode, lock, nextKey, issued, afterReset>>

\* Lines 86-90: the write of the public-key file, then return keypair, nil.
\* GenerateZoneKey goes on to its locked section (line 133).
generateKeyPair_public(p) ==
    /\ pc[p] = "kp_pub"
    /\ \E e \in {"nil", "ErrWrite"} :
         IF e # "nil"
         THEN /\ Return(p, RetErr(e), TRUE, e)
              /\ UNCHANGED <<disk, written>>
         ELSE /\ disk' = Put(disk, PubName(fname[p]), Pub(kp[p]))
              /\ written' = IF op[p] = "GenerateConnectorKeys" THEN Pub(kp[p])
                             ELSE written
              /\ IF op[p] = "GenerateZoneKey"
                 THEN /\ Goto(p, "gz_lock")
                      /\ NoReturnMade
                      /\ UNCHANGED <<op, id, fname, kp, buf, remove, solo>>
                 ELSE Return(p, KeypairResult(p), TRUE, "none")
    /\ UNCHANGED <<dirMode, keys, heap, lock, nextKey, issued, afterReset>>

\* A variant of lines 245-301 without the keystore.ValidateID check.
GenerateKeys_unvalidated(p, o, i, f) ==
    /\ Enter(p, o, i, f, "kp_priv")
    /\ UNCHANGED <<shared, remove, issued, afterReset>>

\* Lines 245-301: GenerateConnectorKeys, GenerateServerKeys,
\* GenerateTranslatorKeys and GenerateDataEncryptionKeys validate the identity
\* and call generateKeyPair on the role's filename.
GenerateKeys(p, o, i, f) ==
    /\ IF ~ValidateID(i)
       THEN EnterReturn(p, o, i, RetErr("ErrInvalidClientID"))
       ELSE Enter(p, o, i, f, "kp_priv")
    /\ UNCHANGED <<shared, remove, issued, afterReset>>

GenerateConnectorKeys(p, i) ==
    GenerateKeys(p, "GenerateConnectorKeys", i, getConnectorKeyFilename(i))
GenerateServerKeys(p, i) ==
    GenerateKeys(p, "GenerateServerKeys", i, getServerKeyFilename(i))
GenerateTranslatorKeys(p, i) ==
    GenerateKeys(p, "GenerateTranslatorKeys", i, getTranslatorKeyFilename(i))
GenerateDataEncryptionKeys(p, i) ==
    GenerateKeys(p, "GenerateDataEncryptionKeys", i, getServerDecryptionKeyFilename(i))

\* ----------------------------------------------------------- HasZonePrivateKey
\* A variant of lines 197-202 that answers from store.keys alone.
HasZoneResult_cacheOnly(i, statOk) == Entry(getZoneKeyFilename(i)) # NoRef

\* Lines 194-202 under RLock: true on a cache entry, else what
\* utils.FileExists says, its error read as "no".
HasZoneResult(i, statOk) ==
    \/ Entry(getZoneKeyFilename(i)) # NoRef
    \/ statOk /\ File(getZoneKeyFilename(i)) # NoBytes
\* FileExists is called, and can fail, only when the cache has no entry.
StatFailure(i, statOk) ==
    IF Entry(getZoneKeyFilename(i)) = NoRef /\ ~statOk THEN "ErrStat" ELSE "none"

\* Lines 185-193: an invalid or empty identity has no key.
HasZonePrivateKey(p, i) ==
    /\ IF ~ValidateID(i) \/ i = ""
       THEN EnterReturn(p, "HasZonePrivateKey", i, RetHas(FALSE))
       ELSE Enter(p, "HasZonePrivateKey", i, getZoneKeyFilename(i), "has_lock")
    /\ UNCHANGED <<shared, remove, issued, afterReset>>

\* Lines 195-202: RLock waits for a writer to unlock; the section reads only.
HasZonePrivateKey_check(p) ==
    /\ pc[p] = "has_lock"
    /\ lock = NoProc
    /\ \E statOk \in BOOLEAN :
         Return(p, RetHas(HasZoneResult(id[p], statOk)), TRUE, StatFailure(id[p], statOk))
    /\ Section
    /\ UNCHANGED <<shared, issued>>

\* ------------------------------------------------------------- GenerateZoneKey
GenerateZoneKey(p) ==
    /\ Enter(p, "GenerateZoneKey", "", NoName, "gz_gen")
    /\ UNCHANGED <<shared, remove, issued, afterReset>>

\* A loop of lines 121-127 that takes every identity for a used one.
GenerateZoneKey_loop_forever(p) ==
    /\ pc[p] = "gz_gen"
    /\ lock = NoProc
    /\ \E i \in ZoneIds, statOk \in BOOLEAN :
         /\ id' = [id EXCEPT ![p] = i]
         /\ fname' = [fname EXCEPT ![p] = getZoneKeyFilename(i)]
         /\ last' = [NoReturn EXCEPT !.failed = StatFailure(i, statOk)]
    /\ Section
    /\ Tick
    /\ UNCHANGED <<shared, store, pc, op, kp, buf, remove, solo, handed, lastPoison, issued, calls>>

\* Lines 121-127: one turn of the loop: zone.GenerateZoneID yields i and
\* HasZonePrivateKey(i) decides whether to loop again or to go on (line 129).
GenerateZoneKey_loop(p) ==
    /\ pc[p] = "gz_gen"
    /\ lock = NoProc
    /\ \E i \in ZoneIds, statOk \in BOOLEAN :
         /\ id' = [id EXCEPT ![p] = i]
         /\ fname' = [fname EXCEPT ![p] = getZoneKeyFilename(i)]
         /\ IF HasZoneResult(i, statOk) THEN UNCHANGED pc ELSE Goto(p, "kp_priv")
         /\ last' = [NoReturn EXCEPT !.failed = StatFailure(i, statOk)]
    /\ Section
    /\ Tick
    /\ UNCHANGED <<shared, store, op, kp, buf, remove, solo, handed, lastPoison, issued, calls>>

\* Lines 133-142: under the lock the private key is encrypted again and the
\* ciphertext cached; when that Encrypt fails the method returns nil, nil, nil.
GenerateZoneKey_cache(p) ==
    /\ pc[p] = "gz_lock"
    /\ lock = NoProc
    /\ \E encOk \in BOOLEAN :
         IF ~encOk
         THEN /\ Return(p, RetNil, TRUE, "ErrEncrypt")
              /\ UNCHANGED <<keys, heap, issued, afterReset>>
         ELSE /\ heap' = Append(heap, Encrypt(Priv(kp[p]), id[p]))
              /\ keys' = Put(keys, fname[p], Len(heap) + 1)
              /\ Return(p, [RetNil EXCEPT !.zid = id[p], !.pub = Pub(kp[p])], TRUE, "none")
              /\ issued' = issued \cup {id[p]}
              /\ Section
    /\ UNCHANGED <<dirMode, written, disk, lock, nextKey>>

\* ------------------------------------------------------------ GetPeerPublicKey
\* Lines 206-210.
GetPeerPublicKey(p, i) ==
    /\ IF ~ValidateID(i)
       THEN EnterReturn(p, "GetPeerPublicKey", i, RetErr("ErrInvalidClientID"))
       ELSE Enter(p, "GetPeerPublicKey", i, getPublicKeyFilename(i), "pk_lock")
    /\ UNCHANGED <<shared, remove, issued, afterReset>>

\* Lines 211-221: Lock, then the cached slice itself is returned on a hit;
\* on a miss utils.LoadPublicKey reads the file.
GetPeerPublicKey_load(p) ==
    /\ pc[p] = "pk_lock"
    /\ lock = NoProc
    /\ Section
    /\ IF Entry(fname[p]) # NoRef
       THEN /\ Return(p, [RetNil EXCEPT !.pub = heap[Entry(fname[p])],
                                        !.ref = Entry(fname[p])], TRUE, "none")
            /\ UNCHANGED <<heap, lock>>
       ELSE IF File(fname[p]) = NoBytes
       THEN /\ Return(p, RetErr("ErrNotExist"), TRUE, "none")
            /\ UNCHANGED <<heap, lock>>
       ELSE \E readOk \in BOOLEAN :
            IF ~readOk
            THEN /\ Return(p, RetErr("ErrRead"), TRUE, "ErrRead")
                 /\ UNCHANGED <<heap, lock>>
            ELSE /\ heap' = Append(heap, File(fname[p]))
                 /\ buf' = [buf EXCEPT ![p] = Len(heap) + 1]
                 /\ lock' = p
                 /\ Goto(p, "pk_fin")
                 /\ NoReturnMade
                 /\ UNCHANGED <<op, id, fname, kp, remove, solo>>
    /\ UNCHANGED <<dirMode, written, disk, keys, nextKey, issued>>

\* Lines 222-224: the slice read is cached and the same slice is returned.
GetPeerPublicKey_cache(p) ==
    /\ pc[p] = "pk_fin"
    /\ lock' = NoProc
    /\ keys' = Put(keys, fname[p], buf[p])
    /\ Return(p, [RetNil EXCEPT !.pub = heap[buf[p]], !.ref = buf[p]], TRUE, "none")
    /\ UNCHANGED <<dirMode, written, disk, heap, nextKey, issued, afterReset>>

\* ----------------------------------------------------------------------- Reset
\* Line 304: Reset takes no lock.
Reset(p) ==
    /\ Enter(p, "Reset", "", NoName, "rs_fill")
    /\ UNCHANGED <<shared, remove, issued, afterReset>>

\* Lines 305-307: every slice in store.keys is filled with zeros.
Reset_fill(p) ==
    /\ pc[p] = "rs_fill"
    /\ heap' = [r \in DOMAIN heap |-> IF r \in Cached THEN FillSlice(heap[r]) ELSE heap[r]]
    /\ Goto(p, "rs_replace")
    /\ Section
    /\ NoReturnMade
    /\ UNCHANGED <<dirMode, written, disk, keys, lock, nextKey, op, id, fname, kp, buf, remove,
                   solo, issued>>

\* A variant of line 308 that also removes the key files.
Reset_replace_removing(p) ==
    /\ pc[p] = "rs_replace"
    /\ keys' = EmptyKeys
    /\ disk' = EmptyDisk
    /\ afterReset' = [fresh |-> TRUE, zeroed |-> \A r \in Cached : heap[r] = Zero]
    /\ Return(p, RetNil, TRUE, "none")
    /\ UNCHANGED <<dirMode, written, heap, lock, nextKey, issued>>

\* Line 308: store.keys = make(map[string][]byte); the old map and its
\* slices are dropped as they are.
Reset_replace(p) ==
    /\ pc[p] = "rs_replace"
    /\ keys' = EmptyKeys
    /\ afterReset' = [fresh |-> TRUE, zeroed |-> \A r \in Cached : heap[r] = Zero]
    /\ Return(p, RetNil, TRUE, "none")
    /\ UNCHANGED <<dirMode, written, disk, heap, lock, nextKey, issued>>

\* ------------------------------------------------------------ GetPoisonKeyPair
GetPoisonKeyPair(p) ==
    /\ Enter(p, "GetPoisonKeyPair", PoisonContext, POISON_KEY_FILENAME, "po_check")
    /\ UNCHANGED <<shared, remove, issued, afterReset>>

\* A variant of lines 315-340 that generates a pair whatever files exist.
GetPoisonKeyPair_check_always(p) ==
    /\ pc[p] = "po_check"
    /\ \E statOk \in BOOLEAN :
         IF ~statOk
         THEN Return(p, RetErr("ErrStat"), TRUE, "ErrStat")
         ELSE /\ Goto(p, "kp_priv")
              /\ NoReturnMade
              /\ UNCHANGED <<op, id, fname, kp, buf, remove, solo>>
    /\ UNCHANGED <<shared, issued, afterReset>>

\* Lines 315-325 and 339-340: the two utils.FileExists; the pair is loaded
\* when both files exist and generated otherwise.
GetPoisonKeyPair_check(p) ==
    /\ pc[p] = "po_check"
    /\ \E statOk \in BOOLEAN :
         IF ~statOk
         THEN Return(p, RetErr("ErrStat"), TRUE, "ErrStat")
         ELSE /\ IF File(fname[p]) # NoBytes /\ File(PubName(fname[p])) # NoBytes
                 THEN Goto(p, "po_load")
                 ELSE Goto(p, "kp_priv")
              /\ NoReturnMade
              /\ UNCHANGED <<op, id, fname, kp, buf, remove, solo>>
    /\ UNCHANGED <<shared, issued, afterReset>>

\* A variant of lines 330-332 that generates a new pair when Decrypt fails.
GetPoisonKeyPair_load_regenerate(p) ==
    /\ pc[p] = "po_load"
    /\ \E e \in {"nil", "ErrReadPrivate", "ErrDecrypt", "ErrReadPublic"} :
         IF e = "ErrReadPrivate"
         THEN Return(p, RetErr("ErrRead"), TRUE, "ErrRead")
         ELSE IF e = "ErrDecrypt" \/ ~CanDecrypt(File(fname[p]), id[p])
         THEN /\ Goto(p, "kp_priv")
              /\ last' = [NoReturn EXCEPT !.failed = "ErrDecrypt"]
              /\ UNCHANGED <<store, op, id, fname, kp, buf, remove, solo, handed,
                             lastPoison, calls>>
              /\ Tick
         ELSE IF e = "ErrReadPublic"
         THEN Return(p, RetErr("ErrRead"), TRUE, "ErrRead")
         ELSE Return(p, [RetNil EXCEPT !.pub = File(PubName(fname[p])),
                                       !.priv = Decrypt(File(fname[p]), id[p])],
                     TRUE, "none")
    /\ UNCHANGED <<shared, issued, afterReset>>

\* Lines 326-337: LoadPrivateKey, Decrypt with the poison context,
\* LoadPublicKey; the first failure is returned.
GetPoisonKeyPair_load(p) ==
    /\ pc[p] = "po_load"
    /\ \E e \in {"nil", "ErrReadPrivate", "ErrDecrypt", "ErrReadPublic"} :
         IF e = "ErrReadPrivate"
         THEN Return(p, RetErr("ErrRead"), TRUE, "ErrRead")
         ELSE IF e = "ErrDecrypt" \/ ~CanDecrypt(File(fname[p]), id[p])
         THEN Return(p, RetErr("ErrDecrypt"), TRUE, "ErrDecrypt")
         ELSE IF e = "ErrReadPublic"
         THEN Return(p, RetErr("ErrRead"), TRUE, "ErrRead")
         ELSE Return(p, [RetNil EXCEPT !.pub = File(PubName(fname[p])),
                                       !.priv = Decrypt(File(fname[p]), id[p])],
                     TRUE, "none")
    /\ UNCHANGED <<shared, issued, afterReset>>

\* ------------------------------------------------------------------ GetAuthKey
GetAuthKey(p, rm) ==
    /\ Enter(p, "GetAuthKey", "", BASIC_AUTH_KEY_FILENAME, "au_check")
    /\ remove' = [remove EXCEPT ![p] = rm]
    /\ UNCHANGED <<shared, issued, afterReset>>

\* A variant of lines 347-362 that generates a key whether or not one exists.
GetAuthKey_check_always(p) ==
    /\ pc[p] = "au_check"
    /\ \E statOk \in BOOLEAN :
         IF ~statOk
         THEN Return(p, RetErr("ErrStat"), TRUE, "ErrStat")
         ELSE /\ Goto(p, "au_gen")
              /\ NoReturnMade
              /\ UNCHANGED <<op, id, fname, kp, buf, remove, solo>>
    /\ UNCHANGED <<shared, issued, afterReset>>

\* Lines 347-353 and 361: utils.FileExists, then read or generate.
GetAuthKey_check(p) ==
    /\ pc[p] = "au_check"
    /\ \E statOk \in BOOLEAN :
         IF ~statOk
         THEN Return(p, RetErr("ErrStat"), TRUE, "ErrStat")
         ELSE /\ IF File(fname[p]) # NoBytes /\ ~remove[p]
                 THEN Goto(p, "au_read")
                 ELSE Goto(p, "au_gen")
              /\ NoReturnMade
              /\ UNCHANGED <<op, id, fname, kp, buf, remove, solo>>
    /\ UNCHANGED <<shared, issued, afterReset>>

\* Lines 354-359: utils.ReadFile of the key file.
GetAuthKey_read(p) ==
    /\ pc[p] = "au_read"
    /\ \E readOk \in BOOLEAN :
         IF ~readOk
         THEN Return(p, RetErr("ErrRead"), TRUE, "ErrRead")
         ELSE Return(p, [RetNil EXCEPT !.priv = File(fname[p])], TRUE, "none")
    /\ UNCHANGED <<shared, issued, afterReset>>

\* Lines 93-113, generateKey(filename, length): rand.Read, os.MkdirAll and
\* the write of the random bytes, which are returned.
generateKey(p) ==
    /\ pc[p] = "au_gen"
    /\ \E e \in {"nil", "ErrRand", "ErrMkdir", "ErrWrite"} :
         IF e # "nil"
         THEN /\ Return(p, RetErr(e), TRUE, e)
              /\ dirMode' = IF e = "ErrWrite" THEN MkdirAll(dirMode) ELSE dirMode
              /\ UNCHANGED <<disk, nextKey>>
         ELSE /\ nextKey' = nextKey + 1
              /\ dirMode' = MkdirAll(dirMode)
              /\ disk' = Put(disk, fname[p], Rand(nextKey))
              /\ Return(p, [RetNil EXCEPT !.priv = Rand(nextKey)], TRUE, "none")
    /\ UNCHANGED <<written, keys, heap, lock, issued, afterReset>>

\* ------------------------------------------------------------------------ Next
Call(p) ==
    \/ \E i \in Ids :
         \/ GetZonePrivateKey(p, i)
         \/ GetPrivateKey(p, i)
         \/ GetServerDecryptionPrivateKey(p, i)
         \/ GetPeerPublicKey(p, i)
         \/ HasZonePrivateKey(p, i)
         \/ GenerateConnectorKeys(p, i)
         \/ GenerateServerKeys(p, i)
         \/ GenerateTranslatorKeys(p, i)
         \/ GenerateDataEncryptionKeys(p, i)
    \/ GenerateZoneKey(p)
    \/ Reset(p)
    \/ GetPoisonKeyPair(p)
    \/ \E rm \in BOOLEAN : GetAuthKey(p, rm)

Step(p) ==
    \/ getPrivateKeyByFilename_load(p)
    \/ getPrivateKeyByFilename_decrypt(p)
    \/ generateKeyPair_private(p)
    \/ generateKeyPair_public(p)
    \/ HasZonePrivateKey_check(p)
    \/ GenerateZoneKey_loop(p)
    \/ GenerateZoneKey_cache(p)
    \/ GetPeerPublicKey_load(p)
    \/ GetPeerPublicKey_cache(p)
    \/ Reset_fill(p)
    \/ Reset_replace(p)
    \/ GetPoisonKeyPair_check(p)
    \/ GetPoisonKeyPair_load(p)
    \/ GetAuthKey_check(p)
    \/ GetAuthKey_read(p)
    \/ generateKey(p)

Next ==
    \/ \E p \in Procs : Call(p) \/ Step(p)
    \/ NewFilesystemKeyStore

Spec == Init /\ [][Next]_vars

\* The process before it constructs its store, over a private-key directory
\* in any mode and with no key in it.
InitConstruction ==
    /\ store = "none"
    /\ dirMode \in DirModes
    /\ disk = EmptyDisk
    /\ keys = EmptyKeys
    /\ heap = <<>>
    /\ lock = NoProc
    /\ nextKey = 1
    /\ pc = [p \in Procs |-> "idle"]
    /\ op = [p \in Procs |-> "none"]
    /\ id = [p \in Procs |-> ""]
    /\ fname = [p \in Procs |-> NoName]
    /\ kp = [p \in Procs |-> 0]
    /\ buf = [p \in Procs |-> NoRef]
    /\ remove = [p \in Procs |-> FALSE]
    /\ solo = [p \in Procs |-> FALSE]
    /\ last = NoReturn
    /\ handed = NoSlice
    /\ lastPoison = NoPair
    /\ written = NoBytes
    /\ issued = {}
    /\ afterReset = NoReset
    /\ calls = 0
    /\ steps = 0
SpecConstruction == InitConstruction /\ [][Next]_vars

\* A store constructed over a directory in which an earlier process has
\* generated the connector keypair of identity "a".
InitExistingKeys ==
    /\ store = "open"
    /\ dirMode = OwnerOnly
    /\ disk = Put(Put(EmptyDisk, getConnectorKeyFilename("a"), Encrypt(Priv(1), "a")),
                  getPublicKeyFilename("a"), Pub(1))
    /\ keys = EmptyKeys
    /\ heap = <<>>
    /\ lock = NoProc
    /\ nextKey = 2
    /\ pc = [p \in Procs |-> "idle"]
    /\ op = [p \in Procs |-> "none"]
    /\ id = [p \in Procs |-> ""]
    /\ fname = [p \in Procs |-> NoName]
    /\ kp = [p \in Procs |-> 0]
    /\ buf = [p \in Procs |-> NoRef]
    /\ remove = [p \in Procs |-> FALSE]
    /\ solo = [p \in Procs |-> FALSE]
    /\ last = NoReturn
    /\ handed = NoSlice
    /\ lastPoison = NoPair
    /\ written = NoBytes
    /\ issued = {}
    /\ afterReset = NoReset
    /\ calls = 0
    /\ steps = 0
SpecExistingKeys == InitExistingKeys /\ [][Next]_vars

\* The zone keys alone, in runs of any length: GenerateZoneKey with the
\* lookups and the Resets that take store.lock or empty store.keys beside it.
InitZone ==
    /\ store = "open"
    /\ dirMode = OwnerOnly
    /\ disk = EmptyDisk
    /\ keys = EmptyKeys
    /\ heap = <<>>
    /\ lock = NoProc
    /\ nextKey = 1
    /\ pc = [p \in Procs |-> "idle"]
    /\ op = [p \in Procs |-> "none"]
    /\ id = [p \in Procs |-> ""]
    /\ fname = [p \in Procs |-> NoName]
    /\ kp = [p \in Procs |-> 0]
    /\ buf = [p \in Procs |-> NoRef]
    /\ remove = [p \in Procs |-> FALSE]
    /\ solo = [p \in Procs |-> FALSE]
    /\ last = NoReturn
    /\ handed = NoSlice
    /\ lastPoison = NoPair
    /\ written = NoBytes
    /\ issued = {}
    /\ afterReset = NoReset
    /\ calls = 0
    /\ steps = NoCount
ZoneCall(p) ==
    \/ GenerateZoneKey(p)
    \/ \E i \in Ids : GetZonePrivateKey(p, i)
    \/ Reset(p)
ZoneStep(p) ==
    \/ GenerateZoneKey_loop(p)
    \/ generateKeyPair_private(p)
    \/ generateKeyPair_public(p)
    \/ GenerateZoneKey_cache(p)
    \/ getPrivateKeyByFilename_load(p)
    \/ getPrivateKeyByFilename_decrypt(p)
    \/ Reset_fill(p)
    \/ Reset_replace(p)
NextZone == \E p \in Procs : ZoneCall(p) \/ ZoneStep(p)
\* The loop of lines 121-127 is left when zone.GenerateZoneID yields an
\* identity that HasZonePrivateKey denies.
GenerateZoneKey_exit(p) == GenerateZoneKey_loop(p) /\ pc'[p] = "kp_priv"
\* The steps past the loop: straight-line code the scheduler runs on.
ZoneProgress(p) == ZoneStep(p) /\ pc[p] # "gz_gen"
\* A goroutine past the loop takes its next step, and the identity generator,
\* asked again and again while some identity would do, yields one that does.
ZoneFairness ==
    \A p \in Procs : WF_vars(ZoneProgress(p)) /\ SF_vars(GenerateZoneKey_exit(p))
SpecZone == InitZone /\ [][NextZone]_vars /\ ZoneFairness

\* ---------------------------------------------------------------- properties
LookupOps == {"GetZonePrivateKey", "GetPrivateKey", "GetServerDecryptionPrivateKey"}
GenerateOps == {"GenerateConnectorKeys", "GenerateServerKeys", "GenerateTranslatorKeys",
                "GenerateDataEncryptionKeys"}
IdentityOps == LookupOps \cup GenerateOps \cup {"GetPeerPublicKey", "HasZonePrivateKey"}
GeneratingOps == GenerateOps \cup {"GenerateZoneKey", "GetPoisonKeyPair", "GetAuthKey"}
\* Failures of key generation, directory creation, encryption and file writes.
GenerationFailures == {"ErrGenerate", "ErrRand", "ErrMkdir", "ErrEncrypt", "ErrWrite"}
PoisonPublic == PubName(POISON_KEY_FILENAME)
\* A Reset has zero-filled the slices and not yet replaced the map.
ResetPending == \E p \in Procs : pc[p] = "rs_replace"

\* C1: when GetPoisonKeyPair has found both poison files and Decrypt of the
\* private one fails, the call returns the decryption error in that step,
\* no key is generated and no file changes.
PoisonDecryptFailureIsReturned ==
    [][\A p \in Procs :
         (pc[p] = "po_load" /\ pc'[p] # pc[p] /\ last'.failed = "ErrDecrypt")
         => /\ pc'[p] = "idle"
            /\ last'.op = "GetPoisonKeyPair"
            /\ last'.ret = RetErr("ErrDecrypt")
            /\ nextKey' = nextKey
            /\ disk' = disk]_vars
\* C1's case: both poison files exist and a call has just failed to decrypt.
PoisonDecryptFailureSeen ==
    /\ last.op = "GetPoisonKeyPair"
    /\ last.failed = "ErrDecrypt"
    /\ last.ret.err = "ErrDecrypt"
    /\ POISON_KEY_FILENAME \in DOMAIN disk
    /\ PoisonPublic \in DOMAIN disk

\* C2: except while a Reset is between its zero-fill and its replacement of
\* the map, every entry of store.keys under a private-key filename is
\* ciphertext and equals the bytes of that file.
CacheIsPersistedCiphertext ==
    ~ResetPending =>
        \A f \in DOMAIN keys :
            ~f.pub => heap[keys[f]].kind = "ct" /\ heap[keys[f]] = File(f)

\* C3: no two goroutines are about to access store.keys or its slices, one of
\* them writing, unless both do it under store.lock.  Reset's two steps write
\* and take no lock; every other access is made by a holder of the lock.
ResetAccess(p) == pc[p] \in {"rs_fill", "rs_replace"}
CacheAccess(p) ==
    pc[p] \in {"lk_lock", "lk_fin", "pk_lock", "pk_fin", "has_lock", "gz_gen", "gz_lock",
               "rs_fill", "rs_replace"}
CacheAccessesAreSerialized ==
    ~ \E p, q \in Procs : p # q /\ ResetAccess(p) /\ CacheAccess(q)

\* C4: the bytes of a public key the store has returned stay what they were
\* when it was returned.
ReturnedValueIsNeverWiped ==
    handed.ref # NoRef => heap[handed.ref] = handed.bytes

\* C5: when a lookup has its ciphertext (from store.keys or from the file) and
\* Decrypt fails, the call returns the decryption error and no key.
LookupDecryptFailureIsReturned ==
    [][\A p \in Procs :
         (pc[p] = "lk_fin" /\ pc'[p] # pc[p] /\ last'.failed = "ErrDecrypt")
         => /\ last'.op \in LookupOps
            /\ last'.ret = RetErr("ErrDecrypt")]_vars
\* C5's case: a lookup of a key whose file exists has just failed to decrypt.
LookupDecryptFailureSeen ==
    /\ last.op = "GetPrivateKey"
    /\ last.failed = "ErrDecrypt"
    /\ last.ret.err = "ErrDecrypt"
    /\ getServerKeyFilename(last.id) \in DOMAIN disk

\* C6: a generating call in which key generation, directory creation,
\* encryption or a file write failed returns an error.
GenerationFailureSurfaces ==
    (last.op \in GeneratingOps /\ last.failed \in GenerationFailures)
    => last.ret.err # "nil"

\* C7: an identity-scoped call with an identity the validator rejects returns
\* the invalid-identity error (HasZonePrivateKey: false) without having
\* accessed a file, a directory or the cache, and leaves files and cache as
\* they were.
InvalidIdentityTouchesNothing ==
    [][(last'.op \in IdentityOps /\ ~ValidateID(last'.id))
       => /\ ~last'.touched
          /\ last'.ret = IF last'.op = "HasZonePrivateKey"
                         THEN RetHas(FALSE) ELSE RetErr("ErrInvalidClientID")
          /\ UNCHANGED <<disk, keys, heap>>]_vars
\* C7's case: a call with the empty identity was refused while a key file and
\* a cache entry existed.
InvalidIdentityRefused ==
    /\ last.op \in IdentityOps
    /\ last.id = ""
    /\ last.ret.err = "ErrInvalidClientID"
    /\ DOMAIN disk # {}
    /\ DOMAIN keys # {}

\* C8: once Reset has returned, and until another section on the cache
\* starts, store.keys is empty and every slice the map held was zero-filled
\* (so the next lookup finds no entry and reads the file).
ResetEmptiesAndZeroes ==
    afterReset.fresh => keys = EmptyKeys /\ afterReset.zeroed

ConsecutivePoisonPairsEqual ==
    [][\A p \in Procs :
         (op[p] = "GetPoisonKeyPair" /\ pc[p] # "idle" /\ pc'[p] = "idle"
            /\ last'.ret.err = "nil" /\ solo[p] /\ lastPoison.valid)
         => /\ pc[p] = "po_load"
            /\ last'.ret.pub = lastPoison.pub
            /\ last'.ret.priv = lastPoison.priv]_vars
\* C10's case: two consecutive calls have returned a pair, the first of them
\* having generated it.
PoisonPairReturnedTwice ==
    /\ last.op = "GetPoisonKeyPair"
    /\ last.ret.err = "nil"
    /\ lastPoison.again
    /\ last.ret.priv.kind = "priv"

\* C11: a GetAuthKey(false) call that finds the key file reads it: it
\* returns the bytes of the file and writes nothing; a GetAuthKey call that
\* generates (GetAuthKey(true) always does) returns a value the file did not
\* hold and leaves the file holding it; and a GetAuthKey(false) call that no
\* other GetAuthKey call overlaps writes the file only when there was none.
AuthKeyIsStableUnlessRemoved ==
    [][\A p \in Procs :
         /\ (pc[p] = "au_check" /\ pc'[p] # pc[p])
            => /\ disk' = disk
               /\ (File(BASIC_AUTH_KEY_FILENAME) # NoBytes /\ ~remove[p])
                  => pc'[p] # "au_gen"
               /\ remove[p] => pc'[p] # "au_read"
         /\ (pc[p] = "au_read" /\ pc'[p] # pc[p] /\ last'.ret.err = "nil")
            => /\ last'.ret.priv = File(BASIC_AUTH_KEY_FILENAME)
               /\ last'.ret.priv # NoBytes
               /\ disk' = disk
         /\ (pc[p] = "au_gen" /\ pc'[p] # pc[p] /\ last'.ret.err = "nil")
            => /\ last'.ret.priv # File(BASIC_AUTH_KEY_FILENAME)
               /\ last'.ret.priv = disk'[BASIC_AUTH_KEY_FILENAME]
               /\ (solo[p] /\ ~remove[p]) => File(BASIC_AUTH_KEY_FILENAME) = NoBytes]_vars
\* C11's case: only the auth key was ever generated, twice, and the call
\* that returned the second value left it in the file.
AuthKeyReplaced ==
    /\ last.op = "GetAuthKey"
    /\ last.ret.err = "nil"
    /\ last.ret.priv = Rand(2)
    /\ File(BASIC_AUTH_KEY_FILENAME) = Rand(2)
    /\ DOMAIN disk = {BASIC_AUTH_KEY_FILENAME}

\* C12: the constructor returns a store only over a private-key directory
\* that exists with mode rwx------.
ConstructionNeedsOwnerOnlyDirectory ==
    [][(last'.op = "NewFilesystemKeyStore" /\ last'.ret.err = "nil")
       => dirMode = OwnerOnly]_vars

\* C13: a GetPeerPublicKey(id) call that begins after the latest successful
\* GenerateConnectorKeys(id) has returned, and that no such generation
\* overlaps, returns the public key that generation wrote.
PeerPublicKeyIsTheWrittenOne ==
    [][\A p \in Procs :
         (op[p] = "GetPeerPublicKey" /\ pc[p] # "idle" /\ pc'[p] = "idle"
            /\ last'.ret.err = "nil" /\ solo[p] /\ written # NoBytes)
         => last'.ret.pub = written]_vars

\* C14: no step of GenerateConnectorKeys, GenerateServerKeys,
\* GenerateTranslatorKeys, GenerateDataEncryptionKeys or GetPoisonKeyPair,
\* failing or not, changes store.keys or a slice it holds.
GenerateKeyPairLeavesCacheAlone ==
    [][\A p \in Procs :
         (pc'[p] # pc[p]
            /\ {op[p], op'[p]} \cap (GenerateOps \cup {"GetPoisonKeyPair"}) # {})
         => keys' = keys /\ heap' = heap]_vars
\* C14's case: a keypair was generated while store.keys held an entry.
KeyPairGeneratedBesideCache ==
    /\ last.op \in GenerateOps \cup {"GetPoisonKeyPair"}
    /\ last.ret.err = "nil"
    /\ last.touched
    /\ keys # EmptyKeys

\* C15: no step removes a file or the private-key directory, and no step of
\* Reset changes a file.
DiskIsNeverReduced ==
    [][/\ DOMAIN disk \subseteq DOMAIN disk'
       /\ dirMode # "absent" => dirMode' = dirMode
       /\ \A p \in Procs :
            (pc'[p] # pc[p] /\ "Reset" \in {op[p], op'[p]}) => disk' = disk]_vars
\* C15's case: Reset has returned and the key files generated before it are
\* there.
ResetKeptFiles ==
    /\ last.op = "Reset"
    /\ last.ret.err = "nil"
    /\ DOMAIN disk # {}

\* C16: a lookup that finds its filename in store.keys uses the cached slice
\* and reads no file; a lookup that returns a key leaves the filename in
\* store.keys with the slice it used; and an entry leaves store.keys only
\* when Reset replaces the map or a new store is constructed.
LookupReadsDiskOnlyOnMiss ==
    [][/\ \A p \in Procs :
            /\ (pc[p] = "lk_lock" /\ pc'[p] # pc[p] /\ Entry(fname[p]) # NoRef)
               => /\ heap' = heap
                  /\ pc'[p] = "lk_fin"
                  /\ buf'[p] = Entry(fname[p])
            /\ (pc[p] = "pk_lock" /\ pc'[p] # pc[p] /\ Entry(fname[p]) # NoRef)
               => /\ heap' = heap
                  /\ last'.ret.err = "nil"
                  /\ last'.ret.ref = Entry(fname[p])
            /\ (pc[p] \in {"lk_fin", "pk_fin"} /\ pc'[p] # pc[p] /\ last'.ret.err = "nil")
               => /\ fname[p] \in DOMAIN keys'
                  /\ keys'[fname[p]] = buf[p]
                  /\ heap' = heap
       /\ (\A p \in Procs : ~(pc[p] = "rs_replace" /\ pc'[p] # pc[p]))
          => (last'.op = "NewFilesystemKeyStore"
              \/ DOMAIN keys \subseteq DOMAIN keys')]_vars
\* C16's case: a lookup has found its filename in store.keys, where the only
\* file read so far had put it.
LookupHitSeen ==
    \E p \in Procs :
        /\ pc[p] = "lk_fin"
        /\ op[p] \in LookupOps
        /\ Len(heap) = 1
        /\ Entry(fname[p]) = buf[p]

\* C17: GenerateZoneKey never writes the private-key file of an identity
\* whose file exists, and never returns an identity that a GenerateZoneKey
\* call has returned before.
ZoneIdentityIsNeverReused ==
    [][/\ \A p \in Procs :
            (op[p] = "GenerateZoneKey" /\ pc[p] = "kp_priv" /\ disk' # disk)
            => fname[p] \notin DOMAIN disk
       /\ (last'.op = "GenerateZoneKey" /\ last'.ret.err = "nil" /\ last'.ret.zid # "")
          => last'.ret.zid \notin issued]_vars

\* C18: a GetPoisonKeyPair call that no other GetPoisonKeyPair call overlaps
\* writes the poison private-key file only when there is none.
PoisonPrivateKeyIsNeverOverwritten ==
    [][\A p \in Procs :
         (op[p] = "GetPoisonKeyPair" /\ pc[p] = "kp_priv" /\ solo[p] /\ disk' # disk)
         => POISON_KEY_FILENAME \notin DOMAIN disk]_vars

\* C19: a GenerateZoneKey call returns, unless it is in its loop and every
\* identity the generator yields has a key (in store.keys or in a file).
NoFreeIdentity ==
    \A i \in ZoneIds :
        Entry(getZoneKeyFilename(i)) # NoRef \/ File(getZoneKeyFilename(i)) # NoBytes
GenerateZoneKeyTerminates ==
    \A p \in Procs :
        (op[p] = "GenerateZoneKey")
            ~> (pc[p] = "idle" \/ (pc[p] = "gz_gen" /\ NoFreeIdentity))
\* C19's case: a call has returned a second identity while the first one
\* had its key.
SecondZoneIdentityReturned ==
    /\ last.op = "GenerateZoneKey"
    /\ last.ret.err = "nil"
    /\ issued = ZoneIds

====
